---- MODULE Spec2Model ----
(***************************************************************************)
(* perfx-locust: the lifecycle of PerfXRunner.run() (runner.py), the stats *)
(* reporter greenlet it spawns, and the part of the command line entry     *)
(* point (cli.py main) that leads into and out of run().                   *)
(*                                                                         *)
(* Scheduling is gevent's: the main flow and the stats greenlet are        *)
(* cooperative, so the stats greenlet only makes a step while the main     *)
(* flow is blocked (sleep, join, engine quit, an observer doing I/O).      *)
(* A KeyboardInterrupt is asynchronous: it may be delivered to the main    *)
(* flow at any statement of run().                                         *)
(*                                                                         *)
(* Spec is the command and the run. SpecParse applies _parse_run_time and  *)
(* SpecValidate applies ArgumentValidator.validate (validator.py) on their *)
(* own, to every input of a bounded set.                                   *)
(***************************************************************************)
EXTENDS Integers, Sequences, FiniteSets, TLC

\* ---------------------------------------------------------------- bounds

\* How many external interrupts (SIGINT) may arrive during one run().
MaxInterrupts == 2
\* How many times the stats greenlet may call the stats observer.
MaxStats == 2
\* How many characters a duration string given to _parse_run_time has.
MaxLen == 4
\* How many parameters an argument schema declares.
MaxParams == 2
\* How many tokens follow the command's own options on a command line.
MaxArgs == 2
\* How many observer registrations are made on one runner.
MaxRegistrations == 3
\* How many write calls are made on one reporter.
MaxWrites == 3
\* How many runners call run() one after the other in one process.
MaxRuns == 2
\* How many requests the engine reports during one run.
MaxRequests == 1

\* ------------------------------------------------- _parse_run_time (pure)

\* self.run_time is None, or a string, here a sequence of characters.
NoneRT == <<"None">>

Digits == {"0", "1", "2", "3", "4", "5", "6", "7", "8", "9"}

DigitVal(c) ==
    CASE c = "0" -> 0 [] c = "1" -> 1 [] c = "2" -> 2 [] c = "3" -> 3
      [] c = "4" -> 4 [] c = "5" -> 5 [] c = "6" -> 6 [] c = "7" -> 7
      [] c = "8" -> 8 [] c = "9" -> 9 [] OTHER -> 0

\* str.lower() on the characters the inputs use.
LowerChar(c) ==
    CASE c = "S" -> "s" [] c = "M" -> "m" [] c = "H" -> "h"
      [] c = "T" -> "t" [] c = "Y" -> "y" [] OTHER -> c

Lower(s) == [i \in 1..Len(s) |-> LowerChar(s[i])]

RECURSIVE LStrip(_)
LStrip(s) == IF s # <<>> /\ Head(s) = " " THEN LStrip(Tail(s)) ELSE s

RECURSIVE RStrip(_)
RStrip(s) ==
    IF s # <<>> /\ s[Len(s)] = " " THEN RStrip(SubSeq(s, 1, Len(s) - 1)) ELSE s

\* str.strip()
Strip(s) == RStrip(LStrip(s))

EndsWith(s, c) == s # <<>> /\ s[Len(s)] = c

\* s[:-1]
DropLast(s) == IF s = <<>> THEN <<>> ELSE SubSeq(s, 1, Len(s) - 1)

RECURSIVE DigitsValue(_)
DigitsValue(s) ==
    IF s = <<>> THEN 0
    ELSE 10 * DigitsValue(SubSeq(s, 1, Len(s) - 1)) + DigitVal(s[Len(s)])

\* Python's int(str) on the characters the inputs use: surrounding whitespace
\* is ignored, one optional sign, then at least one decimal digit. Anything
\* else raises ValueError.
IntBody(s) ==
    LET t == Strip(s)
    IN  IF t # <<>> /\ Head(t) \in {"+", "-"} THEN Tail(t) ELSE t

IntParses(s) ==
    /\ IntBody(s) # <<>>
    /\ \A i \in 1..Len(IntBody(s)) : IntBody(s)[i] \in Digits

IntOf(s) ==
    LET t == Strip(s)
    IN  IF t # <<>> /\ Head(t) = "-"
        THEN 0 - DigitsValue(IntBody(s))
        ELSE DigitsValue(IntBody(s))

\* The three outcomes of _parse_run_time.
ParsedNone(w) == [kind |-> "none", seconds |-> 0, warned |-> w]
ParsedValue(n) == [kind |-> "value", seconds |-> n, warned |-> FALSE]
ParsedRaise == [kind |-> "raise", seconds |-> 0, warned |-> FALSE]

SuffixParse(body, factor) ==
    IF IntParses(body) THEN ParsedValue(IntOf(body) * factor) ELSE ParsedRaise

ParseRunTime(rt) ==
    IF rt = NoneRT \/ rt = <<>> THEN ParsedNone(FALSE)
    ELSE LET time_str == Lower(Strip(rt))
         IN  IF EndsWith(time_str, "s") THEN SuffixParse(DropLast(time_str), 1)
             ELSE IF EndsWith(time_str, "m") THEN SuffixParse(DropLast(time_str), 60)
             ELSE IF EndsWith(time_str, "h") THEN SuffixParse(DropLast(time_str), 3600)
             ELSE IF IntParses(time_str) THEN ParsedValue(IntOf(time_str))
             ELSE ParsedNone(TRUE)

\* The run_time values a run is given: none, "2s", "0" and "xs".
RunTimes == {NoneRT, <<"2", "s">>, <<"0">>, <<"x", "s">>}

\* Every string of at most n characters over the alphabet.
RECURSIVE Strings(_, _)
Strings(alphabet, n) ==
    IF n = 0 THEN {<<>>}
    ELSE LET shorter == Strings(alphabet, n - 1)
         IN  shorter \cup {Append(s, c) : s \in shorter, c \in alphabet}

\* The duration strings _parse_run_time is applied to on its own.
DurationChars == {"0", "3", "s", "m", "h", "x", ".", " "}
DurationStrings == {NoneRT} \cup Strings(DurationChars, MaxLen)

\* run_time_seconds before line 302 has assigned it.
Unparsed == [kind |-> "unset", seconds |-> 0, warned |-> FALSE]

\* ------------------------------------------- ArgumentValidator (pure)

\* Python's None where a string is expected (param.default, the result of
\* _validate_type).
PyNone == NoneRT

\* A value of provided_args: a str, or the bool True that parse_extra_args
\* stores for a bare --flag; s is str(value). NoValue is None.
StrValue(s) == [py |-> "str", s |-> s]
TrueValue == [py |-> "bool", s |-> <<"T", "r", "u", "e">>]
NoValue == [py |-> "none", s |-> <<"N", "o", "n", "e">>]

\* validator.py 34-36: key.replace("-", "_")
normalize_key(key) ==
    [i \in 1..Len(key) |-> IF key[i] = "-" THEN "_" ELSE key[i]]

\* validator.py 38-58: the value under the schema name, else under the schema
\* name with its hyphens turned into underscores, else None.
get_param_value(args, param_name) ==
    IF param_name \in DOMAIN args THEN args[param_name]
    ELSE IF normalize_key(param_name) \in DOMAIN args
    THEN args[normalize_key(param_name)]
    ELSE NoValue

\* Python's float(str) on the characters the inputs use: surrounding
\* whitespace is ignored, one optional sign, then decimal digits with at most
\* one point and at least one digit. Anything else raises ValueError.
FloatParses(s) ==
    LET body == IntBody(s)
        points == {i \in 1..Len(body) : body[i] = "."}
    IN  /\ Cardinality(points) <= 1
        /\ \A i \in (1..Len(body)) \ points : body[i] \in Digits
        /\ Len(body) > Cardinality(points)

\* _validate_type with the type checks left out: every value is taken as it
\* is written.
validate_type_unchecked(param, value) == value.s

\* validator.py 124-158: the value as a string, or None when it is not of the
\* parameter's type. int(True) and float(True) succeed.
validate_type(param, value) ==
    CASE param.type \in {"string", "choice"} -> value.s
      [] param.type = "int" ->
            IF value.py = "bool" \/ IntParses(value.s) THEN value.s ELSE PyNone
      [] param.type = "float" ->
            IF value.py = "bool" \/ FloatParses(value.s) THEN value.s
            ELSE PyNone
      [] param.type = "bool" ->
            IF value.py = "bool" THEN Lower(value.s)
            ELSE IF Lower(value.s) \in {<<"t", "r", "u", "e">>, <<"1">>,
                                        <<"y", "e", "s">>}
            THEN <<"t", "r", "u", "e">>
            ELSE IF Lower(value.s) \in {<<"f", "a", "l", "s", "e">>, <<"0">>,
                                        <<"n", "o">>}
            THEN <<"f", "a", "l", "s", "e">>
            ELSE PyNone
      [] OTHER -> value.s

\* models.py 106-109: ValidationError(parameter, message); the message is
\* kept as its kind: "required", "type" or "choice".
Error(name, kind) == [parameter |-> name, message |-> kind]

\* resolved[name] = v
Put(resolved, name, v) ==
    [n \in DOMAIN resolved \cup {name} |-> IF n = name THEN v ELSE resolved[n]]

Range(seq) == {seq[i] : i \in 1..Len(seq)}

\* validator.py 73-122: the loop over self.parameters from its first
\* remaining parameter on, and the ValidationResult it ends with.
RECURSIVE ValidateFrom(_, _, _, _)
ValidateFrom(params, args, errors, resolved) ==
    IF params = <<>>
    THEN [valid |-> errors = <<>>, errors |-> errors,
          resolved_arguments |-> resolved]
    ELSE LET param == Head(params)
             rest == Tail(params)
             value == get_param_value(args, param.name)
             validated_value == validate_type(param, value)
         IN  IF param.required /\ value = NoValue
             THEN IF param.default # PyNone
                  THEN ValidateFrom(rest, args, errors,
                                    Put(resolved, param.name, param.default))
                  ELSE ValidateFrom(rest, args,
                                    Append(errors, Error(param.name, "required")),
                                    resolved)
             ELSE IF value = NoValue
             THEN IF param.default # PyNone
                  THEN ValidateFrom(rest, args, errors,
                                    Put(resolved, param.name, param.default))
                  ELSE ValidateFrom(rest, args, errors, resolved)
             ELSE IF validated_value = PyNone
             THEN ValidateFrom(rest, args,
                               Append(errors, Error(param.name, "type")),
                               resolved)
             ELSE IF /\ param.type = "choice"
                     /\ param.choices # <<>>
                     /\ validated_value \notin Range(param.choices)
             THEN ValidateFrom(rest, args,
                               Append(errors, Error(param.name, "choice")),
                               resolved)
             ELSE ValidateFrom(rest, args, errors,
                               Put(resolved, param.name, validated_value))

\* validate with the declared defaults ignored.
validate_without_defaults(params, args) ==
    ValidateFrom([i \in 1..Len(params) |->
                     [params[i] EXCEPT !.default = PyNone]],
                 args, <<>>, <<>>)

\* validator.py 60-122: validate(provided_args)
validate(params, args) == ValidateFrom(params, args, <<>>, <<>>)

\* validation_result before line 164 has assigned it.
NoResult == [valid |-> FALSE, errors |-> <<>>, resolved_arguments |-> <<>>]

\* The schemas and arguments validate is applied to on its own: parameter
\* names with a hyphen, with an underscore and with neither; a type whose
\* check can fail, a choice parameter with and without declared choices;
\* argument values that are an integer, not an integer, and a bare flag.
ParamNames == {<<"a", "_", "b">>, <<"a", "-", "b">>, <<"c">>}
ParamTypes == {"int", "choice"}
ParamChoices == {<<>>, << <<"1">>, <<"3">> >>}
ParamDefaults == {PyNone, <<"3">>}
ArgumentParameters ==
    {p \in [name : ParamNames, type : ParamTypes, required : BOOLEAN,
            default : ParamDefaults, choices : ParamChoices] :
        p.choices # <<>> => p.type = "choice"}
ArgValues == {StrValue(<<"1">>), StrValue(<<"x">>), TrueValue}

\* The schemas of at most n parameters, each name declared once.
RECURSIVE Schemas(_)
Schemas(n) ==
    IF n = 0 THEN {<<>>}
    ELSE LET shorter == Schemas(n - 1)
         IN  shorter \cup
             {Append(ps, p) : ps \in shorter, p \in ArgumentParameters}

DistinctNames(ps) ==
    \A i, j \in 1..Len(ps) : ps[i].name = ps[j].name => i = j

\* ----------------------------------------------- parse_extra_args (pure)

\* arg.startswith("--")
StartsWithDashes(arg) == Len(arg) >= 2 /\ arg[1] = "-" /\ arg[2] = "-"

\* "=" in arg
HasEquals(arg) == \E i \in 1..Len(arg) : arg[i] = "="

\* Where the first "=" of arg is.
FirstEquals(arg) ==
    CHOOSE i \in 1..Len(arg) :
        arg[i] = "=" /\ \A j \in 1..(i - 1) : arg[j] # "="

\* arg[2:]
AfterDashes(arg) == SubSeq(arg, 3, Len(arg))

\* cli.py 45: key, value = arg[2:].split("=", 1)
SplitKey(arg) == SubSeq(arg, 3, FirstEquals(arg) - 1)
SplitValue(arg) == SubSeq(arg, FirstEquals(arg) + 1, Len(arg))

\* cli.py 40-56: the loop of parse_extra_args from token i on. A token that
\* does not start with "--" and was not taken as a value is skipped;
\* key.replace("-", "_") is the conversion of normalize_key.
RECURSIVE ParseExtraArgsFrom(_, _, _)
ParseExtraArgsFrom(args, i, result) ==
    IF i > Len(args) THEN result
    ELSE LET arg == args[i]
         IN  IF ~StartsWithDashes(arg)
             THEN ParseExtraArgsFrom(args, i + 1, result)
             ELSE IF HasEquals(arg)
             THEN ParseExtraArgsFrom(args, i + 1,
                      Put(result, normalize_key(SplitKey(arg)),
                          StrValue(SplitValue(arg))))
             ELSE IF i + 1 <= Len(args) /\ ~StartsWithDashes(args[i + 1])
             THEN ParseExtraArgsFrom(args, i + 2,
                      Put(result, normalize_key(AfterDashes(arg)),
                          StrValue(args[i + 1])))
             ELSE ParseExtraArgsFrom(args, i + 1,
                      Put(result, normalize_key(AfterDashes(arg)),
                          TrueValue))

\* cli.py 26-57: parse_extra_args(args)
parse_extra_args(args) == ParseExtraArgsFrom(args, 1, <<>>)

\* What main validates in a run of the command: a schema with one required
\* integer parameter, and command lines that satisfy it, miss it, or mistype
\* it.
CliParameters ==
    << [name |-> <<"c">>, type |-> "int", required |-> TRUE,
        default |-> PyNone, choices |-> <<>>] >>
CliArgs ==
    { <<>>,
      << <<"-", "-", "c">>, <<"1">> >>,
      << <<"-", "-", "c", "=", "x">> >> }

\* The command lines parse_extra_args and validate are applied to in a row:
\* the three forms of an argument, a key with a hyphen, a key no schema
\* declares, and a bare value.
ArgTokens ==
    { <<"-", "-", "c">>, <<"-", "-", "c", "=", "1">>,
      <<"-", "-", "a", "-", "b">>, <<"-", "-", "d", "=", "x">>, <<"1">> }

\* The token sequences of at most n tokens.
RECURSIVE ArgLists(_)
ArgLists(n) ==
    IF n = 0 THEN {<<>>}
    ELSE LET shorter == ArgLists(n - 1)
         IN  shorter \cup {Append(as, t) : as \in shorter, t \in ArgTokens}

\* The schemas those command lines are validated against: none, the
\* command's one, one whose default is not of its type, and one that
\* declares the hyphenated key as well.
ArgsSchemas ==
    { <<>>,
      CliParameters,
      << [name |-> <<"c">>, type |-> "int", required |-> FALSE,
          default |-> <<"x">>, choices |-> <<>>] >>,
      << [name |-> <<"a", "-", "b">>, type |-> "string", required |-> FALSE,
          default |-> PyNone, choices |-> <<>>],
         [name |-> <<"c">>, type |-> "int", required |-> FALSE,
          default |-> PyNone, choices |-> <<>>] >> }

\* ------------------------------------------------------------------ state

VARIABLES
    caller,          \* "lib": run() called by a library user; "cli": by main
    args,            \* cli: ctx.args, the tokens main does not declare
    pc,              \* the statement the main flow is at
    observers,       \* the kinds with a registered observer (_on_start, ...)
    run_time,        \* self.run_time
    run_time_seconds,\* run(): what _parse_run_time returned (line 302)
    stop_flag,       \* self._stop_flag
    runner,          \* self._runner is set
    engine,          \* the engine: "idle", "running" or "stopped"
    quitCalls,       \* calls of self._runner.quit() so far
    stats_greenlet,  \* self._stats_greenlet: "none", "spawned", "sleeping",
                     \* "in_on_stats", "dead" (ended or killed) or
                     \* "failed" (ended by an exception)
    printer_greenlet,\* the stats_printer greenlet: "none" or "scheduled"
    pending,         \* what run() delivers once its finally block ends
    result,          \* how run() ended: "none" until then
    nStart,          \* calls of the start observer
    nComplete,       \* calls of the complete observer
    nFail,           \* calls of the fail observer
    nStats,          \* calls of the stats observer
    interrupts,      \* KeyboardInterrupts delivered so far
    failedAt,        \* history: statement where the first Exception was raised
    raised,          \* history: Exceptions raised inside run() so far
    interruptAt,     \* history: statement where the first interrupt arrived
    durationElapsed, \* history: gevent.sleep(run_time_seconds) returned
    valid,           \* cli: validation_result.valid
    dry_run,         \* cli: --dry-run
    host,            \* cli: test_run.host is set
    cliFailCalls,    \* cli: client.fail_test_run calls made by main itself
    exitCode,        \* cli: "none", "0", "1" or "abort"
    detail_attrs,    \* cli: test_run has the attributes main reads from it
    cliFailedAt,     \* cli history: the statement of main that raised
    parameters,      \* validator: self.parameters, the argument schema
    provided_args,   \* validator: the arguments given to validate
    validation_result, \* what validate returned
    influx_reporter, \* cli: "none" (None), "open" or "closed"
    notified,        \* requests sent to the control plane, per kind
    notifyRaised,    \* history: a control-plane call of that kind raised
    events,          \* points handed to the metrics store, per kind
    callbacks,       \* the observer each registration point holds (0: None)
    regLog,          \* history: the registrations made, in order
    received,        \* the last event delivered: its kind, the observer
                     \* called, and how many registrations preceded it
    listeners,       \* the request listeners added to locust's events.request
    run,             \* which runner of this process is executing run()
    nRequests,       \* requests the engine has reported in this run
    reported,        \* history: the exception of the last reported request
    delivered,       \* request observers the last reported request reached
    outcome,         \* the dictionary the request observer was called with
    client,          \* reporter: self._client is set
    enabled,         \* reporter: self._enabled
    lifecycle,       \* reporter history: "new", "connected" or "closed"
    writeRaised,     \* reporter history: a write method raised
    writeFailures,   \* reporter history: writes the store rejected
    writeSkipped,    \* reporter history: writes that returned at once
    point            \* reporter: the last request point built

runVars == <<stop_flag, runner, engine, quitCalls, stats_greenlet,
             printer_greenlet, pending, result, run_time_seconds>>
countVars == <<nStart, nComplete, nFail, nStats>>
histVars == <<failedAt, raised, interruptAt, durationElapsed>>
inputVars == <<caller, args, run_time, valid, dry_run, host, detail_attrs,
               parameters, provided_args>>
cliVars == <<cliFailCalls, exitCode>>
mainLocals == <<validation_result, cliFailedAt>>
sinkVars == <<influx_reporter, notified, notifyRaised, events>>
reporterVars == <<client, enabled, lifecycle, writeRaised, writeFailures,
                  writeSkipped, point>>
requestVars == <<nRequests, reported, delivered, outcome>>
\* What only the specifications of registration, of the reporter and of
\* several runs change.
restVars == <<regLog, received, run, requestVars, reporterVars>>
vars == <<pc, observers, callbacks, listeners, interrupts, runVars, countVars,
          histVars, inputVars, cliVars, mainLocals, sinkVars, restVars>>

\* runner.py 62-66, 77-100: the five registration points.
ObserverKinds == {"start", "complete", "fail", "request", "stats"}

\* The observers of the events run() itself delivers.
RunObservers == ObserverKinds \ {"request"}

\* The observer a set of registered kinds stands for: observer 1 for each.
Registered(kinds) == [k \in ObserverKinds |-> IF k \in kinds THEN 1 ELSE 0]

\* The lifecycle events main passes on to the control plane and to the
\* metrics store.
EventKinds == {"start", "complete", "fail"}

\* influxdb_reporter.py 155, 210, 249: the measurements written, one per
\* lifecycle event type, locust_request and locust_stats.
PointKinds == EventKinds \cup {"request", "stats"}

\* received before any event was delivered.
NoDelivery == [kind |-> "none", observer |-> 0, at |-> 0]

\* A str of n characters, and None where a str may stand.
Text(n) == [none |-> FALSE, len |-> n]
NoText == [none |-> TRUE, len |-> 0]

\* outcome before the request observer was called.
NoOutcome == [called |-> FALSE, success |-> TRUE, exception |-> NoText]

\* point before a request point was built.
NoPoint == [built |-> FALSE, success |-> TRUE, exception |-> NoText]

\* The statements of run()'s try body, of its two handlers and of its finally.
SetupPCs == {"setup_environment", "load_locustfile", "prepare_arguments",
             "create_environment", "attach_listeners", "create_runner"}
TryPCs == SetupPCs \cup
          {"emit_start", "in_on_start", "start_stats_reporter",
           "spawn_stats_printer", "runner_start", "parse_run_time", "sleep",
           "quit", "in_quit", "join", "set_stop_flag", "kill_sampler",
           "emit_complete", "in_on_complete", "return_true"}
KbdPCs == {"kbd_handler", "kbd_quit", "kbd_in_quit", "kbd_emit_complete",
           "kbd_in_on_complete", "kbd_return"}
ExcPCs == {"exc_handler", "exc_emit_fail", "exc_in_on_fail", "exc_return"}
FinallyPCs == {"finally", "finally_kill"}
RunPCs == TryPCs \cup KbdPCs \cup ExcPCs \cup FinallyPCs

\* Where the main flow is blocked and gevent may run another greenlet. After
\* run() has ended the caller's own code may block as well.
YieldPCs == {"in_on_start", "sleep", "join", "in_quit", "in_on_complete",
             "kbd_in_quit", "kbd_in_on_complete", "exc_in_on_fail", "done"}

\* What is the same at the start of every run.
InitRun ==
    /\ run_time_seconds = Unparsed
    /\ stop_flag = FALSE
    /\ runner = FALSE
    /\ engine = "idle"
    /\ quitCalls = 0
    /\ stats_greenlet = "none"
    /\ printer_greenlet = "none"
    /\ pending = "none"
    /\ result = "none"
    /\ nStart = 0 /\ nComplete = 0 /\ nFail = 0 /\ nStats = 0
    /\ interrupts = 0
    /\ failedAt = "none"
    /\ raised = 0
    /\ interruptAt = "none"
    /\ durationElapsed = FALSE
    /\ cliFailCalls = 0
    /\ exitCode = "none"
    /\ cliFailedAt = "none"
    /\ validation_result = NoResult
    /\ influx_reporter = "none"
    /\ notified = [k \in EventKinds |-> 0]
    /\ notifyRaised = [k \in EventKinds |-> FALSE]
    /\ events = [k \in PointKinds |-> 0]
    /\ regLog = <<>>
    /\ received = NoDelivery
    /\ listeners = <<>>
    /\ run = 1
    /\ nRequests = 0 /\ reported = NoText /\ delivered = 0
    /\ outcome = NoOutcome
    /\ client = FALSE /\ enabled = FALSE /\ lifecycle = "new"
    /\ writeRaised = FALSE /\ writeFailures = 0 /\ writeSkipped = 0
    /\ point = NoPoint

\* run() is called by a library user with any observers, or main is started
\* with arguments that validate or not. The TestRunDetail that
\* client.get_test_run builds (models.py 63-81) declares no endpoint_name,
\* env_code or host, so main's reads of them raise AttributeError:
\* detail_attrs is FALSE for that class, and TRUE for a detail object that
\* answers those reads.
Init ==
    /\ caller \in {"lib", "cli"}
    /\ run_time \in RunTimes
    /\ IF caller = "lib"
       THEN /\ pc = "setup_environment"
            /\ observers \in SUBSET RunObservers
            /\ args = <<>>
            /\ parameters = <<>> /\ provided_args = <<>>
            /\ dry_run = FALSE /\ host = TRUE /\ detail_attrs = TRUE
       ELSE /\ pc = "cli_get_test_run"
            /\ observers = {}
            /\ parameters = CliParameters
            /\ args \in CliArgs
            /\ provided_args = parse_extra_args(args)
            /\ dry_run \in BOOLEAN /\ host \in BOOLEAN
            /\ detail_attrs \in BOOLEAN
    /\ valid = validate(parameters, provided_args).valid
    /\ callbacks = Registered(observers)
    /\ InitRun

\* ------------------------------------------------- exceptions inside run()

\* An exception of kind "exc" (Exception) or "kbd" (KeyboardInterrupt) raised
\* at the current statement: the try body hands it to the matching handler, a
\* handler lets it escape through finally, finally lets it escape at once.
Throw(kind) ==
    IF pc \in TryPCs
    THEN /\ pc' = (IF kind = "kbd" THEN "kbd_handler" ELSE "exc_handler")
         /\ UNCHANGED <<pending, result>>
    ELSE IF pc \in KbdPCs \cup ExcPCs
    THEN /\ pc' = "finally"
         /\ pending' = kind
         /\ UNCHANGED result
    ELSE /\ pc' = "done"
         /\ pending' = kind
         /\ result' = kind

\* An Exception raised by the current statement.
Raise ==
    /\ Throw("exc")
    /\ failedAt' = (IF failedAt = "none" THEN pc ELSE failedAt)
    /\ raised' = raised + 1
    /\ UNCHANGED <<interruptAt, durationElapsed, run_time_seconds>>

\* The current statement succeeds and control moves to statement next.
Goto(next) ==
    /\ pc' = next
    /\ UNCHANGED <<pending, result, histVars, run_time_seconds>>

\* 324, 333, 340: a KeyboardInterrupt delivered while run() is executing.
KeyboardInterrupt ==
    /\ pc \in RunPCs
    /\ interrupts < MaxInterrupts
    /\ interrupts' = interrupts + 1
    /\ Throw("kbd")
    /\ interruptAt' = (IF interruptAt = "none" THEN pc ELSE interruptAt)
    /\ UNCHANGED <<failedAt, raised, durationElapsed, run_time_seconds>>
    /\ UNCHANGED <<observers, callbacks, stop_flag, runner, engine, quitCalls,
                   stats_greenlet, printer_greenlet, countVars, inputVars,
                   cliVars, mainLocals, sinkVars, restVars, listeners>>

\* ------------------------------------------------------ run(): try body

\* What no statement of run() changes.
outsideRun == <<observers, callbacks, interrupts, inputVars, cliVars,
               mainLocals, restVars>>
outsideSinks == <<outsideRun, listeners>>
outside == <<outsideSinks, sinkVars>>

\* client.py 102-174: start_test_run, complete_test_run or fail_test_run
\* posts its request; _handle_response (66-85) then returns, or raises on
\* the answer.
ClientCall(kind, raises) ==
    /\ notified' = [notified EXCEPT ![kind] = @ + 1]
    /\ notifyRaised' = [notifyRaised EXCEPT ![kind] = @ \/ raises]

\* influxdb_reporter.py 234-263: write_test_event hands the point to the
\* write API unless the reporter is not enabled; a failure of the write is
\* logged and swallowed.
write_test_event(kind) ==
    events' = (IF influx_reporter = "open"
               THEN [events EXCEPT ![kind] = @ + 1] ELSE events)

\* influxdb_reporter.py 95-102: close() of a connected reporter.
Closed(reporter) == IF reporter = "open" THEN "closed" ELSE reporter

\* cli.py 233-237: the closure on_start, which returns or raises.
CliOnStart(returns) ==
    \/ /\ ~returns
       /\ ClientCall("start", TRUE)
       /\ UNCHANGED <<influx_reporter, events>>
    \/ /\ returns
       /\ ClientCall("start", FALSE)
       /\ IF influx_reporter # "none" THEN write_test_event("start")
          ELSE UNCHANGED events
       /\ UNCHANGED influx_reporter

\* cli.py 239-251: the closures on_complete and on_fail. Either the
\* control-plane call raises, or the event is written and close() raises
\* (self._client.close() at influxdb_reporter.py 98), or the closure returns.
CliOnTerminal(kind, returns) ==
    \/ /\ ~returns
       /\ ClientCall(kind, TRUE)
       /\ UNCHANGED <<influx_reporter, events>>
    \/ /\ ~returns
       /\ influx_reporter = "open"
       /\ ClientCall(kind, FALSE)
       /\ write_test_event(kind)
       /\ UNCHANGED influx_reporter
    \/ /\ returns
       /\ ClientCall(kind, FALSE)
       /\ IF influx_reporter # "none" THEN write_test_event(kind)
          ELSE UNCHANGED events
       /\ influx_reporter' = Closed(influx_reporter)

\* The observer registered for an event kind is called and returns or raises:
\* main's closure, or a library user's callable, which touches no sink.
Observer(kind, returns) ==
    IF caller = "cli"
    THEN IF kind = "start" THEN CliOnStart(returns)
         ELSE CliOnTerminal(kind, returns)
    ELSE UNCHANGED sinkVars

\* 255: self._setup_environment()
SetupEnvironment ==
    /\ pc = "setup_environment"
    /\ Goto("load_locustfile")
    /\ UNCHANGED <<stop_flag, runner, engine, quitCalls, stats_greenlet,
                   printer_greenlet, countVars, outside>>

\* 258: user_classes = self._load_locustfile(), which raises when the script
\* is missing or holds no User class.
LoadLocustfile ==
    /\ pc = "load_locustfile"
    /\ Goto("prepare_arguments") \/ Raise
    /\ UNCHANGED <<stop_flag, runner, engine, quitCalls, stats_greenlet,
                   printer_greenlet, countVars, outside>>

\* 261: self._prepare_locust_arguments()
PrepareLocustArguments ==
    /\ pc = "prepare_arguments"
    /\ Goto("create_environment")
    /\ UNCHANGED <<stop_flag, runner, engine, quitCalls, stats_greenlet,
                   printer_greenlet, countVars, outside>>

\* 264-276: Environment(...) and the init event; construction may raise.
CreateEnvironment ==
    /\ pc = "create_environment"
    /\ Goto("attach_listeners") \/ Raise
    /\ UNCHANGED <<stop_flag, runner, engine, quitCalls, stats_greenlet,
                   printer_greenlet, countVars, outside>>

\* 171-195: events.request.add_listener(on_request) appends the listener of
\* this runner to the hook of locust's module-level events object, which
\* every runner of the process shares.
add_listener(handlers, runner_id, on_request) ==
    Append(handlers, [runner |-> runner_id, on_request |-> on_request])

\* 279, 169-195: self._attach_event_listeners() adds the request listener and
\* the quitting listener.
AttachEventListeners ==
    /\ pc = "attach_listeners"
    /\ listeners' = add_listener(listeners, run, callbacks["request"])
    /\ Goto("create_runner")
    /\ UNCHANGED <<stop_flag, runner, engine, quitCalls, stats_greenlet,
                   printer_greenlet, countVars, outsideRun, sinkVars>>

\* 282: self._runner = self._environment.create_local_runner()
CreateRunner ==
    /\ pc = "create_runner"
    /\ \/ Goto("emit_start") /\ runner' = TRUE
       \/ Raise /\ runner' = runner
    /\ UNCHANGED <<stop_flag, engine, quitCalls, stats_greenlet,
                   printer_greenlet, countVars, outside>>

\* EmitStart with the call of the start observer left out at this point, as
\* if it had been moved behind self._runner.start().
EmitStartSkipped ==
    /\ pc = "emit_start"
    /\ nStart' = nStart
    /\ Goto("start_stats_reporter")
    /\ UNCHANGED <<stop_flag, runner, engine, quitCalls, stats_greenlet,
                   printer_greenlet, nComplete, nFail, nStats, outside>>

\* 285-286: if self._on_start: self._on_start()
EmitStart ==
    /\ pc = "emit_start"
    /\ IF "start" \in observers
       THEN nStart' = nStart + 1 /\ Goto("in_on_start")
       ELSE nStart' = nStart /\ Goto("start_stats_reporter")
    /\ UNCHANGED <<stop_flag, runner, engine, quitCalls, stats_greenlet,
                   printer_greenlet, nComplete, nFail, nStats, outside>>

\* 286: the start observer returns, or raises.
OnStartEnds ==
    /\ pc = "in_on_start"
    /\ \/ Goto("start_stats_reporter") /\ Observer("start", TRUE)
       \/ Raise /\ Observer("start", FALSE)
    /\ UNCHANGED <<stop_flag, runner, engine, quitCalls, stats_greenlet,
                   printer_greenlet, countVars, outsideSinks>>

\* 289, 219: self._stats_greenlet = gevent.spawn(report_stats)
StartStatsReporter ==
    /\ pc = "start_stats_reporter"
    /\ stats_greenlet' = "spawned"
    /\ Goto("spawn_stats_printer")
    /\ UNCHANGED <<stop_flag, runner, engine, quitCalls, printer_greenlet,
                   countVars, outside>>

\* 292: gevent.spawn(stats_printer(...)): a second periodic greenlet, whose
\* handle is not kept.
SpawnStatsPrinter ==
    /\ pc = "spawn_stats_printer"
    /\ printer_greenlet' = "scheduled"
    /\ Goto("runner_start")
    /\ UNCHANGED <<stop_flag, runner, engine, quitCalls, stats_greenlet,
                   countVars, outside>>

\* 299: self._runner.start(self.users, spawn_rate=self.spawn_rate)
RunnerStart ==
    /\ pc = "runner_start"
    /\ \/ Goto("parse_run_time") /\ engine' = "running"
       \/ Raise /\ engine' = engine
    /\ UNCHANGED <<stop_flag, runner, quitCalls, stats_greenlet,
                   printer_greenlet, countVars, outside>>

\* 302-310: run_time_seconds = self._parse_run_time(); if run_time_seconds:
\* sleep, else join. int() raising ValueError under a suffix is not caught
\* by _parse_run_time.
ParseRunTimeStep ==
    /\ pc = "parse_run_time"
    /\ LET parsed == ParseRunTime(run_time)
       IN  IF parsed.kind = "raise" THEN Raise
           ELSE /\ run_time_seconds' = parsed
                /\ pc' = (IF parsed.kind = "value" /\ parsed.seconds # 0
                          THEN "sleep" ELSE "join")
                /\ UNCHANGED <<pending, result, histVars>>
    /\ UNCHANGED <<stop_flag, runner, engine, quitCalls, stats_greenlet,
                   printer_greenlet, countVars, outside>>

\* 305: gevent.sleep(run_time_seconds) returns: the duration has elapsed.
SleepReturns ==
    /\ pc = "sleep"
    /\ pc' = "quit"
    /\ durationElapsed' = TRUE
    /\ UNCHANGED <<pending, result, failedAt, raised, interruptAt,
                   run_time_seconds>>
    /\ UNCHANGED <<stop_flag, runner, engine, quitCalls, stats_greenlet,
                   printer_greenlet, countVars, outside>>

\* 306: self._runner.quit() is called.
RunnerQuit ==
    /\ pc = "quit"
    /\ quitCalls' = quitCalls + 1
    /\ Goto("in_quit")
    /\ UNCHANGED <<stop_flag, runner, engine, stats_greenlet,
                   printer_greenlet, countVars, outside>>

\* runner.quit() has returned: a running engine has stopped, an engine that
\* was never started stays idle.
Quitted(e) == IF e = "running" THEN "stopped" ELSE e

\* 306: quit() returns once the engine has stopped, or raises.
RunnerQuitEnds ==
    /\ pc = "in_quit"
    /\ \/ Goto("set_stop_flag") /\ engine' = Quitted(engine)
       \/ Raise /\ engine' = engine
    /\ UNCHANGED <<stop_flag, runner, quitCalls, stats_greenlet,
                   printer_greenlet, countVars, outside>>

\* 310: self._runner.greenlet.join() returns: the engine's greenlet has ended
\* (an external stop).
JoinReturns ==
    /\ pc = "join"
    /\ engine' = "stopped"
    /\ Goto("set_stop_flag")
    /\ UNCHANGED <<stop_flag, runner, quitCalls, stats_greenlet,
                   printer_greenlet, countVars, outside>>

\* 313: self._stop_flag = True
SetStopFlag ==
    /\ pc = "set_stop_flag"
    /\ stop_flag' = TRUE
    /\ Goto("kill_sampler")
    /\ UNCHANGED <<runner, engine, quitCalls, stats_greenlet,
                   printer_greenlet, countVars, outside>>

\* greenlet.kill(): blocks until the greenlet is dead. A greenlet that is
\* None or has already ended is falsy and is skipped.
Killed(g) == IF g \in {"none", "dead", "failed"} THEN g ELSE "dead"

\* 314-315: if self._stats_greenlet: self._stats_greenlet.kill()
KillSampler ==
    /\ pc = "kill_sampler"
    /\ stats_greenlet' = Killed(stats_greenlet)
    /\ Goto("emit_complete")
    /\ UNCHANGED <<stop_flag, runner, engine, quitCalls, printer_greenlet,
                   countVars, outside>>

\* 318-319: if self._on_complete: self._on_complete()
EmitComplete ==
    /\ pc = "emit_complete"
    /\ IF "complete" \in observers
       THEN nComplete' = nComplete + 1 /\ Goto("in_on_complete")
       ELSE nComplete' = nComplete /\ Goto("return_true")
    /\ UNCHANGED <<stop_flag, runner, engine, quitCalls, stats_greenlet,
                   printer_greenlet, nStart, nFail, nStats, outside>>

\* 319: the complete observer returns, or raises.
OnCompleteEnds ==
    /\ pc = "in_on_complete"
    /\ \/ Goto("return_true") /\ Observer("complete", TRUE)
       \/ Raise /\ Observer("complete", FALSE)
    /\ UNCHANGED <<stop_flag, runner, engine, quitCalls, stats_greenlet,
                   printer_greenlet, countVars, outsideSinks>>

\* 321-322: return True (through finally)
ReturnTrue ==
    /\ pc = "return_true"
    /\ pc' = "finally"
    /\ pending' = "true"
    /\ UNCHANGED <<result, histVars, run_time_seconds>>
    /\ UNCHANGED <<stop_flag, runner, engine, quitCalls, stats_greenlet,
                   printer_greenlet, countVars, outside>>

\* --------------------------------------- run(): except KeyboardInterrupt

\* 325-326: self._stop_flag = True
KbdHandler ==
    /\ pc = "kbd_handler"
    /\ stop_flag' = TRUE
    /\ Goto("kbd_quit")
    /\ UNCHANGED <<runner, engine, quitCalls, stats_greenlet,
                   printer_greenlet, countVars, outside>>

\* 327-328: if self._runner: self._runner.quit()
KbdQuit ==
    /\ pc = "kbd_quit"
    /\ IF runner
       THEN quitCalls' = quitCalls + 1 /\ Goto("kbd_in_quit")
       ELSE quitCalls' = quitCalls /\ Goto("kbd_emit_complete")
    /\ UNCHANGED <<stop_flag, runner, engine, stats_greenlet,
                   printer_greenlet, countVars, outside>>

\* 328: quit() returns, or raises inside the handler.
KbdQuitEnds ==
    /\ pc = "kbd_in_quit"
    /\ \/ Goto("kbd_emit_complete") /\ engine' = Quitted(engine)
       \/ Raise /\ engine' = engine
    /\ UNCHANGED <<stop_flag, runner, quitCalls, stats_greenlet,
                   printer_greenlet, countVars, outside>>

\* 329-330: if self._on_complete: self._on_complete()
KbdEmitComplete ==
    /\ pc = "kbd_emit_complete"
    /\ IF "complete" \in observers
       THEN nComplete' = nComplete + 1 /\ Goto("kbd_in_on_complete")
       ELSE nComplete' = nComplete /\ Goto("kbd_return")
    /\ UNCHANGED <<stop_flag, runner, engine, quitCalls, stats_greenlet,
                   printer_greenlet, nStart, nFail, nStats, outside>>

\* 330: the complete observer returns, or raises inside the handler.
KbdOnCompleteEnds ==
    /\ pc = "kbd_in_on_complete"
    /\ \/ Goto("kbd_return") /\ Observer("complete", TRUE)
       \/ Raise /\ Observer("complete", FALSE)
    /\ UNCHANGED <<stop_flag, runner, engine, quitCalls, stats_greenlet,
                   printer_greenlet, countVars, outsideSinks>>

\* 331: return True (through finally)
KbdReturn ==
    /\ pc = "kbd_return"
    /\ pc' = "finally"
    /\ pending' = "true"
    /\ UNCHANGED <<result, histVars, run_time_seconds>>
    /\ UNCHANGED <<stop_flag, runner, engine, quitCalls, stats_greenlet,
                   printer_greenlet, countVars, outside>>

\* ------------------------------------------------ run(): except Exception

\* 334-335: logger.error(...); self._stop_flag = True
ExcHandler ==
    /\ pc = "exc_handler"
    /\ stop_flag' = TRUE
    /\ Goto("exc_emit_fail")
    /\ UNCHANGED <<runner, engine, quitCalls, stats_greenlet,
                   printer_greenlet, countVars, outside>>

\* 336-337: if self._on_fail: self._on_fail(str(e))
ExcEmitFail ==
    /\ pc = "exc_emit_fail"
    /\ IF "fail" \in observers
       THEN nFail' = nFail + 1 /\ Goto("exc_in_on_fail")
       ELSE nFail' = nFail /\ Goto("exc_return")
    /\ UNCHANGED <<stop_flag, runner, engine, quitCalls, stats_greenlet,
                   printer_greenlet, nStart, nComplete, nStats, outside>>

\* 337: the fail observer returns, or raises inside the handler.
ExcOnFailEnds ==
    /\ pc = "exc_in_on_fail"
    /\ \/ Goto("exc_return") /\ Observer("fail", TRUE)
       \/ Raise /\ Observer("fail", FALSE)
    /\ UNCHANGED <<stop_flag, runner, engine, quitCalls, stats_greenlet,
                   printer_greenlet, countVars, outsideSinks>>

\* 338: return False (through finally)
ExcReturn ==
    /\ pc = "exc_return"
    /\ pc' = "finally"
    /\ pending' = "false"
    /\ UNCHANGED <<result, histVars, run_time_seconds>>
    /\ UNCHANGED <<stop_flag, runner, engine, quitCalls, stats_greenlet,
                   printer_greenlet, countVars, outside>>

\* ---------------------------------------------------------- run(): finally

\* 341: self._stop_flag = True
Finally ==
    /\ pc = "finally"
    /\ stop_flag' = TRUE
    /\ Goto("finally_kill")
    /\ UNCHANGED <<runner, engine, quitCalls, stats_greenlet,
                   printer_greenlet, countVars, outside>>

\* 342-343: if self._stats_greenlet: self._stats_greenlet.kill(); then run()
\* returns the pending value or re-raises the pending exception.
FinallyKill ==
    /\ pc = "finally_kill"
    /\ stats_greenlet' = Killed(stats_greenlet)
    /\ pc' = "done"
    /\ result' = pending
    /\ UNCHANGED <<pending, histVars, run_time_seconds>>
    /\ UNCHANGED <<stop_flag, runner, engine, quitCalls, printer_greenlet,
                   countVars, outside>>

\* ----------------------------------- report_stats (the stats greenlet)

\* What only the main flow changes.
mainOnly == <<pc, pending, result, histVars, run_time_seconds, runner,
              engine, quitCalls, printer_greenlet, nStart, nComplete, nFail,
              outside>>

\* 201: while not self._stop_flag
LoopCheck(flag) == IF flag THEN "dead" ELSE "sleeping"

\* 200-202: the greenlet is scheduled for the first time and reaches
\* gevent.sleep(interval), or ends at once when the flag is already set.
SamplerStarts ==
    /\ pc \in YieldPCs
    /\ stats_greenlet = "spawned"
    /\ stats_greenlet' = LoopCheck(stop_flag)
    /\ UNCHANGED <<stop_flag, nStats, mainOnly>>

\* 202-207: gevent.sleep(interval) returns and, without looking at the flag
\* again, the greenlet calls the stats observer, which blocks on its I/O.
\* With no runner or no observer it goes back to the loop condition.
SamplerTick ==
    /\ pc \in YieldPCs
    /\ stats_greenlet = "sleeping"
    /\ nStats < MaxStats
    /\ IF runner /\ "stats" \in observers
       THEN nStats' = nStats + 1 /\ stats_greenlet' = "in_on_stats"
       ELSE nStats' = nStats /\ stats_greenlet' = LoopCheck(stop_flag)
    /\ UNCHANGED <<stop_flag, mainOnly>>

\* SamplerOnStatsEnds with a failure of the snapshot handed to the main flow,
\* as if report_stats ran inside run()'s try body.
SamplerOnStatsPropagates ==
    /\ pc \in YieldPCs \cap RunPCs
    /\ stats_greenlet = "in_on_stats"
    /\ stats_greenlet' = "failed"
    /\ Raise
    /\ UNCHANGED <<stop_flag, runner, engine, quitCalls, printer_greenlet,
                   countVars, outside>>

\* 207-217, 201: the stats observer returns and the loop condition is read;
\* or building the snapshot or the observer raises, which ends the greenlet
\* and nothing else (report_stats catches nothing, and an exception in a
\* greenlet is reported by gevent's hub, not raised in another greenlet).
SamplerOnStatsEnds ==
    /\ pc \in YieldPCs
    /\ stats_greenlet = "in_on_stats"
    /\ \/ stats_greenlet' = LoopCheck(stop_flag)
       \/ stats_greenlet' = "failed"
    /\ UNCHANGED <<stop_flag, nStats, mainOnly>>

\* ------------------------------------------------------------- cli.main

\* What main's own statements leave alone.
cliFrame == <<interrupts, runVars, countVars, histVars, inputVars, restVars,
             listeners>>

\* sys.exit(code), or main returning (code "0"). No interrupt is modelled
\* while main runs its own statements, outside run().
Exit(code) ==
    /\ pc' = "exited"
    /\ exitCode' = code

\* An Exception raised by a statement of main's try body: the except of
\* line 283 is next.
CliRaise(at) ==
    /\ pc' = "cli_except"
    /\ cliFailedAt' = at
    /\ exitCode' = exitCode

\* 152: test_run = client.get_test_run(run_id), which raises on any
\* control-plane error.
CliGetTestRun ==
    /\ pc = "cli_get_test_run"
    /\ \/ pc' = "cli_log_config" /\ UNCHANGED <<cliFailedAt, exitCode>>
       \/ CliRaise("get_test_run")
    /\ UNCHANGED <<observers, callbacks, cliFailCalls, validation_result, sinkVars,
                   cliFrame>>

\* 154-160: the configuration is logged, reading test_run.endpoint_name,
\* test_run.env_code and test_run.host, which raises AttributeError on an
\* object that has no such attribute.
CliLogConfig ==
    /\ pc = "cli_log_config"
    /\ IF detail_attrs
       THEN pc' = "cli_validate" /\ UNCHANGED <<cliFailedAt, exitCode>>
       ELSE CliRaise("log_config")
    /\ UNCHANGED <<observers, callbacks, cliFailCalls, validation_result, sinkVars,
                   cliFrame>>

\* 163-166: validation_result = validator.validate(extra_args)
CliValidate ==
    /\ pc = "cli_validate"
    /\ validation_result' = validate(parameters, provided_args)
    /\ pc' = (IF validation_result'.valid THEN "cli_dry_run"
              ELSE "cli_validation_failed")
    /\ UNCHANGED <<observers, callbacks, cliVars, cliFailedAt, sinkVars, cliFrame>>

\* 175-177: client.fail_test_run(run_id, error_msg); sys.exit(1). The
\* notification may raise, which the except of line 283 catches.
CliValidationFailed ==
    /\ pc = "cli_validation_failed"
    /\ cliFailCalls' = cliFailCalls + 1
    /\ \/ ClientCall("fail", FALSE) /\ Exit("1") /\ UNCHANGED cliFailedAt
       \/ ClientCall("fail", TRUE) /\ CliRaise("fail_test_run")
    /\ UNCHANGED <<observers, callbacks, validation_result, influx_reporter, events,
                   cliFrame>>

\* 182-194: if dry_run: print the configuration and return.
CliDryRun ==
    /\ pc = "cli_dry_run"
    /\ IF dry_run THEN Exit("0")
       ELSE pc' = "cli_check_host" /\ exitCode' = exitCode
    /\ UNCHANGED <<observers, callbacks, cliFailCalls, mainLocals, sinkVars, cliFrame>>

\* 197-201: if not test_run.host: client.fail_test_run(...); sys.exit(1)
CliCheckHost ==
    /\ pc = "cli_check_host"
    /\ IF host
       THEN /\ pc' = "cli_create_runner"
            /\ UNCHANGED <<cliFailCalls, exitCode, cliFailedAt, notified,
                           notifyRaised>>
       ELSE /\ cliFailCalls' = cliFailCalls + 1
            /\ \/ /\ ClientCall("fail", FALSE)
                  /\ Exit("1")
                  /\ UNCHANGED cliFailedAt
               \/ ClientCall("fail", TRUE) /\ CliRaise("fail_test_run")
    /\ UNCHANGED <<observers, callbacks, validation_result, influx_reporter, events,
                   cliFrame>>

\* 204-276: the reporter is built when a metrics store is configured and
\* answers (else influx_reporter is None), the runner is built, the five
\* observers are registered and runner.run() is called.
CliCreateRunner ==
    /\ pc = "cli_create_runner"
    /\ influx_reporter' \in {"none", "open"}
    /\ observers' = ObserverKinds
    /\ callbacks' = Registered(ObserverKinds)
    /\ pc' = "setup_environment"
    /\ UNCHANGED <<cliVars, mainLocals, notified, notifyRaised, events,
                   cliFrame>>

\* 276-281: success = runner.run(); runner.print_summary();
\* sys.exit(0 if success else 1). An Exception out of run() reaches the
\* except of line 283; a KeyboardInterrupt out of run() is not caught by
\* main and aborts the command.
CliAfterRun ==
    /\ caller = "cli"
    /\ pc = "done"
    /\ CASE result = "true" -> Exit("0") /\ UNCHANGED cliFailedAt
         [] result = "false" -> Exit("1") /\ UNCHANGED cliFailedAt
         [] result = "exc" -> CliRaise("run")
         [] OTHER -> Exit("abort") /\ UNCHANGED cliFailedAt
    /\ UNCHANGED <<observers, callbacks, cliFailCalls, validation_result, sinkVars,
                   cliFrame>>

\* 283-289: except Exception: client.fail_test_run(run_id, str(e)) with its
\* own failure swallowed; sys.exit(1)
CliExcept ==
    /\ pc = "cli_except"
    /\ cliFailCalls' = cliFailCalls + 1
    /\ \E raises \in BOOLEAN : ClientCall("fail", raises)
    /\ Exit("1")
    /\ UNCHANGED <<observers, callbacks, mainLocals, influx_reporter, events, cliFrame>>

\* ------------------------------------------------------------ the system

\* The steps of run(), of its stats greenlet, and an interrupt.
RunNext ==
    \/ SetupEnvironment \/ LoadLocustfile \/ PrepareLocustArguments
    \/ CreateEnvironment \/ AttachEventListeners \/ CreateRunner
    \/ EmitStart \/ OnStartEnds \/ StartStatsReporter \/ SpawnStatsPrinter
    \/ RunnerStart \/ ParseRunTimeStep \/ SleepReturns \/ RunnerQuit
    \/ RunnerQuitEnds \/ JoinReturns \/ SetStopFlag \/ KillSampler
    \/ EmitComplete \/ OnCompleteEnds \/ ReturnTrue
    \/ KbdHandler \/ KbdQuit \/ KbdQuitEnds \/ KbdEmitComplete
    \/ KbdOnCompleteEnds \/ KbdReturn
    \/ ExcHandler \/ ExcEmitFail \/ ExcOnFailEnds \/ ExcReturn
    \/ Finally \/ FinallyKill
    \/ KeyboardInterrupt
    \/ SamplerStarts \/ SamplerTick \/ SamplerOnStatsEnds

Next ==
    \/ RunNext
    \/ CliGetTestRun \/ CliLogConfig \/ CliValidate \/ CliValidationFailed
    \/ CliDryRun
    \/ CliCheckHost \/ CliCreateRunner \/ CliAfterRun \/ CliExcept

Spec == Init /\ [][Next]_vars

\* ------------------------------------- _parse_run_time applied on its own

\* A runner is constructed with a duration string and nothing else happens
\* to it.
InitParse ==
    /\ caller = "lib"
    /\ pc = "parse_call"
    /\ run_time \in DurationStrings
    /\ observers = {} /\ callbacks = Registered({})
    /\ args = <<>>
    /\ parameters = <<>> /\ provided_args = <<>>
    /\ valid = TRUE /\ dry_run = FALSE /\ host = TRUE /\ detail_attrs = TRUE
    /\ InitRun

\* runner.py 221-238: self._parse_run_time() returns, or raises ValueError
\* (recorded as the outcome "raise").
ParseRunTimeCall ==
    /\ pc = "parse_call"
    /\ run_time_seconds' = ParseRunTime(run_time)
    /\ pc' = "parsed"
    /\ UNCHANGED <<observers, callbacks, interrupts, stop_flag, runner, engine, quitCalls,
                   stats_greenlet, printer_greenlet, pending, result,
                   countVars, histVars, inputVars, cliVars, mainLocals,
                   sinkVars, restVars, listeners>>

SpecParse == InitParse /\ [][ParseRunTimeCall]_vars

\* ---------------------------- ArgumentValidator.validate applied on its own

\* A validator is constructed for a schema that declares each name once and
\* is given a dictionary of arguments.
InitValidate ==
    /\ caller = "lib"
    /\ pc = "validate_call"
    /\ run_time = NoneRT
    /\ observers = {} /\ callbacks = Registered({})
    /\ args = <<>>
    /\ parameters \in {ps \in Schemas(MaxParams) : DistinctNames(ps)}
    /\ \E keys \in SUBSET ParamNames : provided_args \in [keys -> ArgValues]
    /\ valid = TRUE /\ dry_run = FALSE /\ host = TRUE /\ detail_attrs = TRUE
    /\ InitRun

\* validator.py 60-122: validation_result = validator.validate(provided_args)
ValidateCall ==
    /\ pc = "validate_call"
    /\ validation_result' = validate(parameters, provided_args)
    /\ pc' = "validated"
    /\ UNCHANGED <<observers, callbacks, interrupts, runVars, countVars, histVars,
                   inputVars, cliVars, cliFailedAt, sinkVars, restVars,
                   listeners>>

SpecValidate == InitValidate /\ [][ValidateCall]_vars

\* ----------------- parse_extra_args and validate as main applies them

\* main is entered with the tokens click left in ctx.args, for a test run
\* with one of the schemas.
InitArgs ==
    /\ caller = "cli"
    /\ pc = "cli_parse_extra_args"
    /\ run_time = NoneRT
    /\ observers = {} /\ callbacks = Registered({})
    /\ args \in ArgLists(MaxArgs)
    /\ parameters \in ArgsSchemas
    /\ provided_args = <<>>
    /\ valid = validate(parameters, parse_extra_args(args)).valid
    /\ dry_run = FALSE /\ host = TRUE /\ detail_attrs = TRUE
    /\ InitRun

\* cli.py 142: extra_args = parse_extra_args(ctx.args)
CliParseExtraArgs ==
    /\ pc = "cli_parse_extra_args"
    /\ provided_args' = parse_extra_args(args)
    /\ pc' = "cli_validate"
    /\ UNCHANGED <<caller, args, run_time, valid, dry_run, host, detail_attrs,
                   parameters>>
    /\ UNCHANGED <<observers, callbacks, interrupts, runVars, countVars, histVars,
                   cliVars, mainLocals, sinkVars, restVars, listeners>>

SpecArgs == InitArgs /\ [][CliParseExtraArgs \/ CliValidate]_vars

\* influxdb_reporter.py 171: the length an exception text is cut to.
ErrorTextBound == 500

\* The lengths of the exception texts the engine reports: none, empty,
\* short, at the bound and beyond it.
TextLengths == {0, 1, ErrorTextBound, ErrorTextBound + 1}
RequestTexts == {NoText} \cup {Text(n) : n \in TextLengths}

\* exception[:500]
Truncated(text) ==
    IF text.len > ErrorTextBound THEN Text(ErrorTextBound) ELSE text

\* A str or None used as a condition: None and "" are false.
Truthy(text) == ~text.none /\ text.len > 0

\* ------------------------------------ several runs in one process

\* One runner after the other is constructed, given its observers and run,
\* in the same process; the engine reports requests while it is running.
InitRuns ==
    /\ caller = "lib"
    /\ pc = "setup_environment"
    /\ run_time \in RunTimes
    /\ observers \in {{"request"}, ObserverKinds}
    /\ callbacks = Registered(observers)
    /\ args = <<>>
    /\ parameters = <<>> /\ provided_args = <<>>
    /\ valid = TRUE /\ dry_run = FALSE /\ host = TRUE /\ detail_attrs = TRUE
    /\ InitRun

\* runner.py 182-190: the listener of one runner handles a request: the
\* dictionary its request observer is called with. success is
\* `exception is None`; the text is str(exception), as long as the
\* exception's message, and None without an exception.
on_request(exception) ==
    [called |-> TRUE,
     success |-> exception.none,
     exception |-> IF exception.none THEN NoText ELSE Text(exception.len)]

\* The handlers of events.request whose runner has a request observer.
Reached(handlers) ==
    {i \in 1..Len(handlers) : handlers[i].on_request # 0}

\* The engine reports a finished request while the main flow is blocked:
\* events.request.fire calls every handler added to the hook, in order, and
\* each handler calls the request observer of its own runner, if it has one.
RequestReported ==
    /\ engine = "running"
    /\ pc \in YieldPCs \cap RunPCs
    /\ nRequests < MaxRequests
    /\ \E exception \in RequestTexts :
          /\ reported' = exception
          /\ outcome' = IF callbacks["request"] # 0 /\ listeners # <<>>
                        THEN on_request(exception) ELSE outcome
    /\ nRequests' = nRequests + 1
    /\ delivered' = Cardinality(Reached(listeners))
    /\ UNCHANGED <<pc, observers, callbacks, listeners, interrupts, runVars,
                   countVars, histVars, inputVars, cliVars, mainLocals,
                   sinkVars, regLog, received, run, reporterVars>>

\* runner.py 36-72, 240: run() has ended and the caller constructs the next
\* runner, registers its observers and calls its run(). Every attribute of
\* the new object starts as __init__ sets it; the hooks of locust's events
\* object are the process's and keep their handlers.
RunAgain ==
    /\ caller = "lib"
    /\ pc = "done"
    /\ run < MaxRuns
    /\ run' = run + 1
    /\ pc' = "setup_environment"
    /\ observers' \in {{"request"}, ObserverKinds}
    /\ callbacks' = Registered(observers')
    /\ run_time_seconds' = Unparsed
    /\ stop_flag' = FALSE
    /\ runner' = FALSE
    /\ engine' = "idle"
    /\ quitCalls' = 0
    /\ stats_greenlet' = "none"
    /\ printer_greenlet' = "none"
    /\ pending' = "none"
    /\ result' = "none"
    /\ nStart' = 0 /\ nComplete' = 0 /\ nFail' = 0 /\ nStats' = 0
    /\ failedAt' = "none"
    /\ raised' = 0
    /\ interruptAt' = "none"
    /\ durationElapsed' = FALSE
    /\ nRequests' = 0 /\ reported' = NoText /\ delivered' = 0
    /\ outcome' = NoOutcome
    /\ UNCHANGED <<listeners, interrupts, inputVars, cliVars, mainLocals,
                   sinkVars, regLog, received, reporterVars>>

SpecRuns == InitRuns /\ [][RunNext \/ RequestReported \/ RunAgain]_vars

\* ------------------------------------------- InfluxDBReporter on its own

\* influxdb_reporter.py 63-65: a reporter has been constructed.
InitReporter ==
    /\ caller = "lib"
    /\ pc = "reporter"
    /\ run_time = NoneRT
    /\ observers = {} /\ callbacks = Registered({})
    /\ args = <<>>
    /\ parameters = <<>> /\ provided_args = <<>>
    /\ valid = TRUE /\ dry_run = FALSE /\ host = TRUE /\ detail_attrs = TRUE
    /\ InitRun

\* What no method of the reporter touches.
reporterFrame == <<pc, observers, callbacks, listeners, interrupts, runVars,
                   countVars, histVars, inputVars, cliVars, mainLocals,
                   influx_reporter, notified, notifyRaised, regLog, received,
                   run, requestVars>>

\* influxdb_reporter.py 67-93: connect() returns False without a url or a
\* token; else the client is built, pinged and enabled, and an exception on
\* the way (before or after self._client is assigned) disables the reporter.
Connect ==
    /\ \/ UNCHANGED <<client, enabled, lifecycle>>
       \/ /\ client' \in {client, TRUE}
          /\ enabled' = FALSE
          /\ lifecycle' = lifecycle
       \/ /\ client' = TRUE
          /\ enabled' = TRUE
          /\ lifecycle' = "connected"
    /\ UNCHANGED <<events, writeRaised, writeFailures, writeSkipped, point,
                   reporterFrame>>

\* influxdb_reporter.py 95-102: close() closes the client and disables the
\* reporter, or self._client.close() raises and nothing is assigned; without
\* a client it does nothing.
Close ==
    /\ IF client
       THEN \/ /\ client' = FALSE
               /\ enabled' = FALSE
               /\ lifecycle' = "closed"
            \/ UNCHANGED <<client, enabled, lifecycle>>
       ELSE UNCHANGED <<client, enabled, lifecycle>>
    /\ UNCHANGED <<events, writeRaised, writeFailures, writeSkipped, point,
                   reporterFrame>>

\* The write calls made on the reporter so far.
WriteCalls ==
    events["request"] + events["stats"] + events["start"]
    + events["complete"] + events["fail"] + writeFailures + writeSkipped

\* write with neither the _enabled check nor the except around the write.
write_unguarded(kind, fails) ==
    /\ WriteCalls < MaxWrites
    /\ IF fails
       THEN /\ writeRaised' = TRUE
            /\ writeFailures' = writeFailures + 1
            /\ UNCHANGED <<events, writeSkipped>>
       ELSE /\ events' = [events EXCEPT ![kind] = @ + 1]
            /\ UNCHANGED <<writeRaised, writeFailures, writeSkipped>>

\* influxdb_reporter.py 145-175, 203-232, 242-263: what the three write
\* methods share: return at once unless enabled; build the point and hand it
\* to the write API inside try; log and swallow an Exception.
write(kind, fails) ==
    /\ WriteCalls < MaxWrites
    /\ IF ~enabled
       THEN /\ writeSkipped' = writeSkipped + 1
            /\ UNCHANGED <<events, writeRaised, writeFailures>>
       ELSE IF fails
       THEN /\ writeFailures' = writeFailures + 1
            /\ UNCHANGED <<events, writeRaised, writeSkipped>>
       ELSE /\ events' = [events EXCEPT ![kind] = @ + 1]
            /\ UNCHANGED <<writeRaised, writeFailures, writeSkipped>>

\* influxdb_reporter.py 148-171: the request point: the success tag and,
\* for a non-empty exception text, the text cut to 500 characters.
request_point(success, exception) ==
    [built |-> TRUE, success |-> success,
     exception |-> IF Truthy(exception) THEN Truncated(exception) ELSE NoText]

\* influxdb_reporter.py 125-175: write_request(..., success, exception)
WriteRequest ==
    \E exception \in RequestTexts, fails \in BOOLEAN :
        /\ write("request", fails)
        /\ point' = IF enabled THEN request_point(exception.none, exception)
                    ELSE point
        /\ UNCHANGED <<client, enabled, lifecycle, reporterFrame>>

\* influxdb_reporter.py 177-232: write_stats(...)
WriteStats ==
    \E fails \in BOOLEAN :
        /\ write("stats", fails)
        /\ UNCHANGED <<client, enabled, lifecycle, point, reporterFrame>>

\* influxdb_reporter.py 234-263: write_test_event(event_type, message)
WriteTestEvent ==
    \E kind \in EventKinds, fails \in BOOLEAN :
        /\ write(kind, fails)
        /\ UNCHANGED <<client, enabled, lifecycle, point, reporterFrame>>

SpecReporter ==
    InitReporter
    /\ [][Connect \/ Close \/ WriteRequest \/ WriteStats \/ WriteTestEvent]_vars

\* ------------------------------------- observer registration on its own

\* The callables a caller registers.
Callbacks == {1, 2}

\* runner.py 62-66: a runner has been constructed: no observer is registered.
InitRegister ==
    /\ caller = "lib"
    /\ pc = "constructed"
    /\ run_time = NoneRT
    /\ observers = {} /\ callbacks = Registered({})
    /\ args = <<>>
    /\ parameters = <<>> /\ provided_args = <<>>
    /\ valid = TRUE /\ dry_run = FALSE /\ host = TRUE /\ detail_attrs = TRUE
    /\ InitRun

\* What registration and delivery leave alone.
registerFrame == <<pc, listeners, interrupts, runVars, countVars, histVars,
                   inputVars, cliVars, mainLocals, sinkVars, run, requestVars,
                   reporterVars>>

\* Register with a callback kept only when the registration point is empty.
RegisterKeepsFirst(kind, callback) ==
    /\ Len(regLog) < MaxRegistrations
    /\ callbacks' = IF callbacks[kind] = 0
                     THEN [callbacks EXCEPT ![kind] = callback]
                     ELSE callbacks
    /\ observers' = observers \cup {kind}
    /\ regLog' = Append(regLog, [kind |-> kind, observer |-> callback])
    /\ UNCHANGED <<received, registerFrame>>

\* runner.py 77-100: on_start, on_complete, on_fail, on_request and on_stats
\* each assign the callback to their own registration point.
Register(kind, callback) ==
    /\ Len(regLog) < MaxRegistrations
    /\ callbacks' = [callbacks EXCEPT ![kind] = callback]
    /\ observers' = observers \cup {kind}
    /\ regLog' = Append(regLog, [kind |-> kind, observer |-> callback])
    /\ UNCHANGED <<received, registerFrame>>

\* runner.py 285-286, 318-319, 336-337, 182-183, 203-207: an event of a kind
\* is delivered: `if self._on_x: self._on_x(...)`.
Dispatch(kind) ==
    /\ callbacks[kind] # 0
    /\ received' = [kind |-> kind, observer |-> callbacks[kind],
                    at |-> Len(regLog)]
    /\ UNCHANGED <<observers, callbacks, regLog, registerFrame>>

RegisterCall == \E kind \in ObserverKinds, callback \in Callbacks :
                    Register(kind, callback)

DispatchCall == \E kind \in ObserverKinds : Dispatch(kind)

SpecRegister == InitRegister /\ [][RegisterCall \/ DispatchCall]_vars

\* ------------------------------------------------------------ the claims

\* run() has returned or raised.
RunEnded == result # "none"

\* The engine start call of line 299 has succeeded.
EngineStarted == engine # "idle"

\* Stopping has begun: the duration has elapsed and quit() is requested, the
\* unbounded wait is over, an interrupt or an error has been caught, or run()
\* is already past all of that.
StoppingPCs == {"in_quit", "set_stop_flag", "kill_sampler", "emit_complete",
                "in_on_complete", "return_true"}
               \cup KbdPCs \cup ExcPCs \cup FinallyPCs
               \cup {"done", "cli_except", "exited"}
Stopping == pc \in StoppingPCs

\* C1: in every invocation of run() the start observer is invoked at most
\* once and the terminal observers (complete and fail together) at most once.
C1_AtMostOneStartAndOneTerminal ==
    /\ nStart <= 1
    /\ nComplete + nFail <= 1

\* C2: when the duration has elapsed and a (single) interrupt arrives before
\* run() has returned, with nothing else failing, exactly one terminal event
\* is delivered and it is Completed.
C2_RaceYieldsOneCompleted ==
    ( /\ RunEnded
      /\ durationElapsed
      /\ interrupts = 1
      /\ raised = 0
      /\ "complete" \in observers )
    => (nComplete = 1 /\ nFail = 0)

\* C3: a run whose setup and engine start succeeded has, when run() ends,
\* delivered exactly one Started event and exactly one terminal event (stated
\* for runs no interrupt reaches, with all three observers registered).
C3_OneStartedThenOneTerminal ==
    ( /\ RunEnded
      /\ EngineStarted
      /\ interrupts = 0
      /\ {"start", "complete", "fail"} \subseteq observers )
    => (nStart = 1 /\ nComplete + nFail = 1)

\* C4: when setup fails before the engine is started, zero Started events and
\* exactly one Failed event are emitted and the run reports failure (stated
\* for at most one interrupt); for a plan without a target host the event is
\* main's failure notification.
C4_SetupFailureOneFailed ==
    /\ ( /\ RunEnded
         /\ failedAt \in SetupPCs
         /\ interrupts <= 1
         /\ "fail" \in observers )
       => (nStart = 0 /\ nFail = 1 /\ result # "true")
    /\ ( /\ pc = "exited"
         /\ caller = "cli" /\ valid /\ ~dry_run /\ ~host
         /\ failedAt = "none" )
       => (nStart = 0 /\ nFail + cliFailCalls = 1 /\ exitCode = "1")

\* C5: a (single) interrupt received while the run is in Running produces the
\* Completed event, never Failed, and run() returns true.
C5_InterruptInRunningCompletes ==
    ( /\ RunEnded
      /\ interruptAt \in {"sleep", "join"}
      /\ interrupts = 1
      /\ "complete" \in observers )
    => (nComplete = 1 /\ nFail = 0 /\ result = "true")

\* C6: a failure raised by the engine during start or stop, the quit issued
\* while handling an interrupt included, does not leave run(): it becomes
\* exactly one Failed event and run() returns false (stated for runs in which
\* the engine failure is the only Exception and no further interrupt comes).
C6_EngineFailureBecomesFailed ==
    ( /\ RunEnded
      /\ raised = 1
      /\ \/ failedAt \in {"runner_start", "in_quit"} /\ interrupts = 0
         \/ /\ failedAt = "kbd_in_quit"
            /\ interrupts = 1
            /\ interruptAt \in {"sleep", "join"}
      /\ "fail" \in observers )
    => (result = "false" /\ nFail = 1)

\* C7: once Stopping has begun the stats observer is never invoked again
\* (stated for runs in which nothing raises and no interrupt arrives).
C7_NoStatsAfterStopping ==
    [][(Stopping /\ raised = 0 /\ interrupts = 0) => nStats' = nStats]_vars

\* C8: whenever a terminal observer has been invoked in a started run, the
\* engine has been asked to stop (or has stopped) and the stats greenlet has
\* been cancelled before (stated for at most one interrupt or one Exception).
C8_StopAndCancelBeforeTerminal ==
    (EngineStarted /\ nComplete + nFail > 0 /\ interrupts + raised <= 1)
    => ( /\ quitCalls > 0 \/ engine = "stopped"
         /\ stats_greenlet \in {"none", "dead", "failed"} )

\* C9: when run() has returned or raised, the stats greenlet is stopped and
\* no periodic greenlet spawned by run() is still scheduled (stated for runs
\* in which nothing raises and no interrupt arrives).
C9_NoPeriodicTaskAfterRun ==
    (RunEnded /\ raised = 0 /\ interrupts = 0)
    => ( /\ stats_greenlet \in {"none", "dead", "failed"}
         /\ printer_greenlet = "none" )

\* C10 as stated: in every run where the engine start call fails, no Started
\* event has been delivered.
C10_NoStartedWhenStartFails == failedAt = "runner_start" => nStart = 0

\* C10 as amended: the Started event is delivered once the local runner
\* exists and before the engine start call, so whenever the start call has
\* been reached (and has failed or succeeded) a registered start observer has
\* been invoked exactly once.
C10_StartedBeforeEngineStart ==
    /\ nStart > 0 => runner
    /\ ("start" \in observers /\ (failedAt = "runner_start" \/ EngineStarted))
       => nStart = 1

\* C10 witness: the engine start call has failed after the start observer ran.
C10_Witness ==
    /\ failedAt = "runner_start"
    /\ "start" \in observers
    /\ nStart = 1
    /\ engine = "idle"

\* main has exited after run() was entered and no interrupt arrived.
CliRunExited ==
    /\ caller = "cli"
    /\ pc = "exited"
    /\ interrupts = 0

ValidationFailed == validation_result # NoResult /\ ~validation_result.valid

C15_ExitCode ==
    (CliRunExited /\ cliFailedAt # "get_test_run")
    => ( /\ exitCode \in {"0", "1"}
         /\ exitCode = "0" <=> (valid /\ (dry_run \/ result = "true")) )

\* The parameter name with its underscores written as hyphens.
Hyphenated(name) ==
    [i \in 1..Len(name) |-> IF name[i] = "_" THEN "-" ELSE name[i]]

\* validate has returned (ArgumentValidator on its own).
Validated == pc = "validated"

\* C16: validate resolves a hyphenated key of the input against the underscore
\* form of the schema name: with schema name a_b and only the key a-b given,
\* the parameter is treated as present (no "required" error) and, when every
\* value is acceptable for it, its value is in resolved_arguments.
C16_HyphenKeyResolves ==
    Validated =>
        \A i \in 1..Len(parameters) :
            LET param == parameters[i]
                key == Hyphenated(param.name)
            IN  ( /\ key # param.name
                  /\ param.name \notin DOMAIN provided_args
                  /\ key \in DOMAIN provided_args )
                => ( /\ Error(param.name, "required")
                            \notin Range(validation_result.errors)
                     /\ (param.type = "choice" /\ param.choices = <<>>)
                        => /\ param.name \in DOMAIN
                                  validation_result.resolved_arguments
                           /\ validation_result.resolved_arguments[param.name]
                                  = provided_args[key].s )

\* The input has the parameter neither under its name nor under its name with
\* hyphens turned into underscores.
Absent(param) ==
    /\ param.name \notin DOMAIN provided_args
    /\ normalize_key(param.name) \notin DOMAIN provided_args

\* The errors recorded for a parameter name.
ErrorsFor(name) ==
    {j \in 1..Len(validation_result.errors) :
        validation_result.errors[j].parameter = name}

\* C17: in a schema that declares each name once, every required parameter
\* absent from the input resolves to its default when it has one and otherwise
\* contributes exactly one error ("required") and no resolved entry; every
\* optional absent parameter resolves to its default or is left out, without
\* error.
C17_AbsentParameters ==
    Validated =>
        \A i \in 1..Len(parameters) :
            LET param == parameters[i]
                resolved == validation_result.resolved_arguments
            IN  Absent(param) =>
                    IF param.default # PyNone
                    THEN /\ param.name \in DOMAIN resolved
                         /\ resolved[param.name] = param.default
                         /\ ErrorsFor(param.name) = {}
                    ELSE /\ param.name \notin DOMAIN resolved
                         /\ IF param.required
                            THEN /\ Cardinality(ErrorsFor(param.name)) = 1
                                 /\ Error(param.name, "required")
                                        \in Range(validation_result.errors)
                            ELSE ErrorsFor(param.name) = {}

\* C17 witness: the schema [rate: int, required] with the input {} is invalid
\* with one error, for that parameter.
C17_Witness ==
    /\ Validated
    /\ parameters = << [name |-> <<"c">>, type |-> "int", required |-> TRUE,
                        default |-> PyNone, choices |-> <<>>] >>
    /\ provided_args = <<>>
    /\ validation_result =
           [valid |-> FALSE, errors |-> << Error(<<"c">>, "required") >>,
            resolved_arguments |-> <<>>]

\* The value given for a parameter that is not absent.
Given(param) ==
    IF param.name \in DOMAIN provided_args THEN provided_args[param.name]
    ELSE provided_args[normalize_key(param.name)]

\* What the type of a parameter asks of a value: an int reads as an integer,
\* a bool is one of the accepted words; a string or a choice takes anything.
TypeOk(param, value) ==
    CASE param.type = "int" -> value.py = "bool" \/ IntParses(value.s)
      [] param.type = "bool" ->
            \/ value.py = "bool"
            \/ Lower(value.s) \in {<<"t", "r", "u", "e">>, <<"1">>,
                                   <<"y", "e", "s">>,
                                   <<"f", "a", "l", "s", "e">>, <<"0">>,
                                   <<"n", "o">>}
      [] OTHER -> TRUE

\* The value is outside the choices a choice parameter declares.
ChoiceFails(param, value) ==
    /\ param.type = "choice"
    /\ param.choices # <<>>
    /\ value.s \notin Range(param.choices)

\* The kind of error a parameter is to produce, "none" for no error.
ExpectedError(param) ==
    IF Absent(param)
    THEN IF param.required /\ param.default = PyNone THEN "required"
         ELSE "none"
    ELSE IF ~TypeOk(param, Given(param)) THEN "type"
    ELSE IF ChoiceFails(param, Given(param)) THEN "choice"
    ELSE "none"

\* The place of a parameter name in the schema.
IndexOf(name) == CHOOSE i \in 1..Len(parameters) : parameters[i].name = name

\* C18: in a schema that declares each name once, validate returns valid=true
\* iff no parameter produced an error; a present value that fails its type
\* check or the membership in its declared choices yields one error for that
\* parameter and no resolved entry for it, the errors come in schema order,
\* and the parameters without an error that have a value or a default are
\* still resolved.
C18_ValidIffNoErrors ==
    Validated =>
        LET errors == validation_result.errors
            resolved == validation_result.resolved_arguments
        IN  /\ validation_result.valid <=> (errors = <<>>)
            /\ validation_result.valid
                   <=> \A i \in 1..Len(parameters) :
                           ExpectedError(parameters[i]) = "none"
            /\ \A i \in 1..Len(parameters) :
                   LET param == parameters[i]
                   IN  IF ExpectedError(param) # "none"
                       THEN /\ Cardinality(ErrorsFor(param.name)) = 1
                            /\ Error(param.name, ExpectedError(param))
                                   \in Range(errors)
                            /\ param.name \notin DOMAIN resolved
                       ELSE /\ ErrorsFor(param.name) = {}
                            /\ (~Absent(param) \/ param.default # PyNone)
                               => param.name \in DOMAIN resolved
            /\ \A j, k \in 1..Len(errors) :
                   j < k => IndexOf(errors[j].parameter)
                                < IndexOf(errors[k].parameter)

\* C18 witness: a choice parameter is given a value outside its choices while
\* the value of the other parameter is fine: the result is invalid with the
\* one choice error and still resolves the other parameter.
C18_Witness ==
    /\ Validated
    /\ Len(parameters) = 2
    /\ ~validation_result.valid
    /\ Len(validation_result.errors) = 1
    /\ validation_result.errors[1].message = "choice"
    /\ DOMAIN validation_result.resolved_arguments # {}
    /\ \A i \in 1..Len(parameters) : ~Absent(parameters[i])

\* The duration string reads as an integer with an optional s, m or h behind
\* it (as int() reads integers, after lower() and strip()).
DurationBody(str) ==
    LET time_str == Lower(Strip(str))
    IN  IF time_str # <<>> /\ time_str[Len(time_str)] \in {"s", "m", "h"}
        THEN DropLast(time_str) ELSE time_str

DurationFactor(str) ==
    LET time_str == Lower(Strip(str))
    IN  IF EndsWith(time_str, "m") THEN 60
        ELSE IF EndsWith(time_str, "h") THEN 3600
        ELSE 1

\* C19: for every duration string, an integer with an optional s, m or h
\* suffix parses to that integer times 1, 60 or 3600 seconds, and every other
\* string is treated as unbounded with a logged warning, without raising.
C19_DurationParsesOrUnbounded ==
    (pc = "parsed" /\ run_time \notin {NoneRT, <<>>})
    => IF IntParses(DurationBody(run_time))
       THEN run_time_seconds =
                ParsedValue(IntOf(DurationBody(run_time))
                            * DurationFactor(run_time))
       ELSE run_time_seconds = ParsedNone(TRUE)

\* C20: a run is unbounded only when no duration is configured: whenever the
\* configured duration parses to an integer d >= 0, 0 included, run() does
\* not wait for an external stop (the join of line 310) but sleeps d seconds
\* and then asks the engine to stop.
C20_UnboundedOnlyWithoutDuration ==
    pc = "join" => run_time_seconds.kind # "value"

\* A stats snapshot has failed: the stats greenlet was ended by an exception.
SnapshotFailed == stats_greenlet = "failed"

\* C22: a failure while computing or delivering a stats snapshot never makes
\* the run fail: the step in which the snapshot fails changes nothing of the
\* main flow (no exception in run(), no Failed event), and a run in which
\* nothing else raises and no interrupt arrives still returns true with no
\* Failed event.
C22_SnapshotFailureKeepsRun ==
    /\ []( (SnapshotFailed /\ RunEnded /\ raised = 0 /\ interrupts = 0)
           => (result = "true" /\ nFail = 0) )
    /\ [][ (~SnapshotFailed /\ SnapshotFailed')
           => UNCHANGED <<pc, pending, result, raised, failedAt, nFail>> ]_vars

\* C22 witness: a snapshot failed during a run that then returned true.
C22_Witness ==
    /\ SnapshotFailed
    /\ nStats > 0
    /\ result = "true"
    /\ nFail = 0

\* C27: a Completed event is never delivered in a run() invocation in which
\* no Started event was delivered before, also when an interrupt arrives
\* during setup (stated for runs with a start observer registered).
C27_NoCompletedWithoutStarted ==
    ("start" \in observers /\ nComplete > 0) => nStart > 0

\* C28: run()'s result agrees with the terminal event it delivered: it
\* returns true iff the complete observer was invoked and the fail observer
\* was not, and false iff the fail observer was invoked (stated for ended
\* runs with both terminal observers registered that no interrupt reaches).
C28_ReturnAgreesWithTerminal ==
    (RunEnded /\ {"complete", "fail"} \subseteq observers /\ interrupts = 0)
    => ( /\ result = "true" <=> (nComplete > 0 /\ nFail = 0)
         /\ result = "false" <=> nFail > 0 )

\* The statements of main that come before runner.run() is called.
CliPreRunPCs == {"cli_get_test_run", "cli_log_config", "cli_validate",
                 "cli_validation_failed", "cli_dry_run", "cli_check_host",
                 "cli_create_runner", "cli_except"}

C30_ValidPlanReachesRun ==
    ( /\ caller = "cli" /\ host /\ valid /\ ~dry_run
      /\ cliFailedAt # "get_test_run" )
    => ( /\ (pc \in CliPreRunPCs /\ cliFailedAt # "run")
            => notified["fail"] = 0
         /\ pc = "exited" => observers = ObserverKinds )

\* The key a pass-through token names, hyphens written as underscores.
PassThroughKey(arg) ==
    normalize_key(IF HasEquals(arg) THEN SplitKey(arg) ELSE AfterDashes(arg))

\* C23: every pass-through --key value, --key=value or --flag argument on
\* the command line appears, under its normalized key, in the resolved
\* arguments main hands to the runner (stated once validation has
\* succeeded, which is when main goes on to build the runner).
C23_PassThroughArgsResolved ==
    (caller = "cli" /\ pc = "cli_dry_run")
    => \A i \in 1..Len(args) :
           StartsWithDashes(args[i])
           => PassThroughKey(args[i])
                  \in DOMAIN validation_result.resolved_arguments

\* The observer the last registration of a kind among the first n
\* registrations named, 0 when there was none.
LastRegistered(kind, n) ==
    LET of == {i \in 1..n : regLog[i].kind = kind}
    IN  IF of = {} THEN 0
        ELSE regLog[CHOOSE i \in of : \A j \in of : j <= i].observer

\* C25: for each of the five kinds a second registration replaces the first:
\* an event is delivered to the observer registered last for its kind and to
\* no other, and a registration leaves the observers of the other kinds as
\* they were.
C25_LastRegistrationWins ==
    /\ []( received.kind # "none"
           => received.observer = LastRegistered(received.kind, received.at) )
    /\ [][ \A k \in ObserverKinds :
               ( /\ Len(regLog') = Len(regLog) + 1
                 /\ regLog'[Len(regLog')].kind # k )
               => callbacks'[k] = callbacks[k] ]_vars

\* C25 witness: a kind was registered twice with different observers and an
\* event of that kind went to the second.
C25_Witness ==
    /\ received.at >= 2
    /\ \E i, j \in 1..received.at :
           /\ i < j
           /\ regLog[i].kind = received.kind /\ regLog[j].kind = received.kind
           /\ regLog[i].observer # regLog[j].observer
           /\ received.observer = regLog[j].observer
           /\ \A l \in (j + 1)..received.at : regLog[l].kind # received.kind

\* C24: the metrics writer is fire-and-forget: write_request, write_stats
\* and write_test_event never raise; before connect() has succeeded and
\* after close() has returned they write nothing; and a write the store
\* rejects leaves the reporter enabled as it was and the run untouched.
C24_WriterFireAndForget ==
    /\ [](~writeRaised)
    /\ [][ lifecycle # "connected" => events' = events ]_vars
    /\ [][ writeFailures' # writeFailures
           => UNCHANGED <<enabled, client, lifecycle, pc, runVars,
                          countVars>> ]_vars

\* C24 witness: on one reporter a write was rejected by the store, one went
\* through, and one was made after close() and skipped, leaving the counts
\* as they were.
C24_Witness ==
    /\ lifecycle = "closed"
    /\ writeFailures = 1
    /\ writeSkipped = 1
    /\ WriteCalls = MaxWrites
    /\ ~writeRaised

\* C21: every request the engine reports produces at most one outcome, and
\* when it carries an exception the outcome the request observer gets has
\* success false and a non-empty error text of at most ErrorTextBound
\* characters (stated for the first runner of a process, whose listener is
\* the only one on the hook).
C21_RequestOutcomeTranslation ==
    (nRequests > 0 /\ Len(listeners) = 1)
    => ( /\ delivered <= 1
         /\ ~reported.none
            => ( /\ outcome.called
                 /\ ~outcome.success
                 /\ ~outcome.exception.none
                 /\ outcome.exception.len >= 1
                 /\ outcome.exception.len <= ErrorTextBound ) )

\* C26: the request listener a runner adds is removed when its run() ends,
\* so that a request reported during a later run of the same process
\* reaches exactly one request observer (every runner here has one).
C26_ListenersScopedToRun ==
    nRequests > 0 => delivered = 1

\* A resolved value is what its parameter declares: an int or a float can be
\* parsed as one, a bool is "true" or "false", a choice is one of the
\* declared choices.
Satisfies(param, v) ==
    CASE param.type = "int" -> IntParses(v)
      [] param.type = "float" -> FloatParses(v)
      [] param.type = "bool" ->
            v \in {<<"t", "r", "u", "e">>, <<"f", "a", "l", "s", "e">>}
      [] param.type = "choice" ->
            param.choices # <<>> => v \in Range(param.choices)
      [] OTHER -> TRUE

\* C31: every entry of resolved_arguments satisfies its parameter's
\* declaration, whether it comes from a value on the command line, from a
\* bare --flag or from the schema's default.
C31_ResolvedEntriesWellTyped ==
    (caller = "cli" /\ pc \in {"cli_dry_run", "cli_validation_failed"})
    => \A j \in 1..Len(parameters) :
           parameters[j].name \in DOMAIN validation_result.resolved_arguments
           => Satisfies(parameters[j],
                        validation_result.resolved_arguments[parameters[j].name])

\* The run is in Running: the engine has been started and the main flow is
\* waiting for the duration to elapse or for the engine to stop.
Running == pc \in {"sleep", "join"} /\ ~stop_flag

\* C32: a failure while computing or delivering one stats snapshot does not
\* end the sampler: as long as the run is in Running the stats greenlet is
\* alive, so that a later tick still emits a snapshot.
C32_SamplerSurvivesFailure ==
    Running => stats_greenlet \in {"spawned", "sleeping", "in_on_stats"}
====
